---- MODULE Spec2Model ----
(***************************************************************************)
(* Model of the Telegram Mini App storefront client.                       *)
(*   src/unnamed/part_000  - the client with createInvoice/refreshBalance  *)
(*   src/miniapp/app.js    - the client whose buy button calls tg.sendData *)
(* Both share auth(), setDiag(), setError(), showError(), renderPacks().   *)
(*                                                                         *)
(* JavaScript values are modelled as strings; undefined and null are the   *)
(* two sentinel strings below.  The source's non-ASCII literals are        *)
(* written in ASCII: the Cyrillic word of the balance text is transcribed  *)
(* as " raskladov", the em dash as "-" and the star sign as "*".           *)
(***************************************************************************)
EXTENDS Integers, Sequences, FiniteSets, TLC

VARIABLES
    app,            \* which of the two scripts is loaded
    tg,             \* window.Telegram?.WebApp || null
    sessionToken,   \* let sessionToken
    localStorage,   \* value under key "astra_session"
    balanceEl,      \* balanceEl.textContent
    refLinkEl,      \* refLinkEl.value
    packsEl,        \* rows of packsEl, each with its buy button
    supportLink,    \* supportLink.href
    errorHidden,    \* errorBox.classList contains "hidden"
    diagTg,         \* diagTg.textContent
    diagUser,       \* diagUser.textContent
    diagErr,        \* diagErr.textContent
    authPc,         \* position of the auth() call: "init", at an await
                    \* ("fetch", "text"), or the return it left through
    authReqs,       \* number of POST /api/auth requests issued
    authData,       \* local data of auth()
    attempts,       \* one record per createInvoice() call
    refreshes,      \* one record per POST /api/balance request, named by
                    \* the attempt and the handler that called refreshBalance
    sentData,       \* payloads passed to tg.sendData
    closed,         \* tg.close() was called
    balanceCalls    \* number of calls of refreshBalance()

vars == <<app, tg, sessionToken, localStorage, balanceEl, refLinkEl, packsEl,
          supportLink, errorHidden, diagTg, diagUser, diagErr, authPc,
          authReqs, authData, attempts, refreshes, sentData, closed,
          balanceCalls>>

uiVars == <<balanceEl, refLinkEl, packsEl, supportLink>>
authVars == <<authPc, authReqs, authData>>
envVars == <<app, tg>>

----------------------------------------------------------------------------
(* Bounds *)

MaxClicks == 2

\* direct calls of refreshBalance() in SpecRefresh
MaxCalls == 2

----------------------------------------------------------------------------
(* JavaScript values *)

undefined == "<undefined>"
null == "<null>"

Truthy(v) == v \notin {undefined, null, ""}

\* a || b
Or(a, b) == IF Truthy(a) THEN a ELSE b

\* thrown values: e?.message || e
Errors ==
    { [message |-> "Failed to fetch", str |-> "TypeError: Failed to fetch"],
      [message |-> undefined, str |-> "aborted"] }

ErrText(e) == Or(e.message, e.str)

\* what a rejected fetch throws
FetchError == [message |-> "Failed to fetch", str |-> "TypeError: Failed to fetch"]

\* what resp.json() throws on a body that is not JSON
JsonError == [message |-> "Unexpected token", str |-> "SyntaxError"]

\* what tg.openInvoice throws on a link it does not accept
OpenError == [message |-> "WebAppInvoiceUrlInvalid", str |-> "Error"]

\* what tg.ready() throws outside Telegram
ReadyError == [message |-> "WebApp is not initialized", str |-> "Error"]

PreviewLen == 200

\* rawText.slice(0, 200)
Slice(s) == IF Len(s) <= PreviewLen THEN s ELSE SubSeq(s, 1, PreviewLen)

Dash == "-"
Spreads == " raskladov"

----------------------------------------------------------------------------
(* The environment's inputs *)

Chunk == "<html>502 Bad Gateway</html>"
LongBody == Chunk \o Chunk \o Chunk \o Chunk \o Chunk \o Chunk \o Chunk \o Chunk

\* tg when window.Telegram?.WebApp is an object: opened outside a chat
\* (empty initData), a current client, an old client without openInvoice,
\* and an old client whose ready() throws
TgObjects ==
    { [present |-> TRUE, initData |-> "", openInvoice |-> TRUE,
       readyThrows |-> FALSE],
      [present |-> TRUE, initData |-> "query_id=1", openInvoice |-> TRUE,
       readyThrows |-> FALSE],
      [present |-> TRUE, initData |-> "query_id=1", openInvoice |-> FALSE,
       readyThrows |-> FALSE],
      [present |-> TRUE, initData |-> "query_id=1", openInvoice |-> FALSE,
       readyThrows |-> TRUE] }

\* tg when window.Telegram?.WebApp is missing: tg is null
TgNull ==
    [present |-> FALSE, initData |-> "", openInvoice |-> FALSE,
     readyThrows |-> FALSE]

P1 == [key |-> "pack5", spreads |-> 5, stars |-> 50]
P2 == [key |-> "pack20", spreads |-> 20, stars |-> 150]

HttpStatus == {0, 200, 502}

AuthFailData ==
    [ok : {FALSE}, error : {undefined, "bad_init_data"},
     message : {undefined, "hash mismatch"}]

RefLink == "t.me/bot?start=r1"

\* ok:true responses that differ in the session they carry
AuthSessionCases ==
    [ok : {TRUE}, session : {undefined, "", "s1"}, balance : {5},
     ref_link : {RefLink}, packages : {{<<P1>>}}, support_link : {undefined}]

\* ok:true responses that differ in what is displayed
AuthDisplayCases ==
    [ok : {TRUE}, session : {undefined, ""}, balance : {0, 5},
     ref_link : {undefined, "", RefLink},
     packages : {{}, {<<>>}, {<<P1, P2>>}},
     support_link : {undefined, "t.me/support"}]

AuthOkData == AuthSessionCases \cup AuthDisplayCases

NonJsonBodies == {"", "<html>", LongBody}

InvoiceLink == "t.me/$inv"

InvoiceData ==
    { [ok |-> TRUE, invoice_link |-> InvoiceLink, message |-> undefined],
      [ok |-> TRUE, invoice_link |-> undefined, message |-> undefined],
      [ok |-> FALSE, invoice_link |-> undefined, message |-> undefined],
      [ok |-> FALSE, invoice_link |-> undefined, message |-> "pack not found"] }

BalanceData ==
    { [ok |-> TRUE, balance |-> 7, message |-> undefined],
      [ok |-> FALSE, balance |-> 0, message |-> undefined],
      [ok |-> FALSE, balance |-> 0, message |-> "session expired"] }

Statuses == {"paid", "cancelled", "failed", "pending"}

----------------------------------------------------------------------------
(* Helpers of both scripts *)

\* setError(text)
setError(text) == "error: " \o Or(text, Dash)

\* `${balance} raskladov`
BalanceText(b) == ToString(b) \o Spreads

\* the row renderPacks builds for one pack; key is what its button passes on
PackRow(p) ==
    [html |-> "<div>" \o ToString(p.spreads) \o Spreads \o "</div><div>"
              \o ToString(p.stars) \o " *</div>",
     key |-> p.key]

\* renderPacks(packs): the new content of packsEl
renderPacks(packs) == [i \in DOMAIN packs |-> PackRow(packs[i])]

\* data.packages || []
PackagesOr(d) == IF d.packages = {} THEN <<>> ELSE CHOOSE s \in d.packages : TRUE

----------------------------------------------------------------------------
Init ==
    /\ app \in {"invoice", "sendData"}
    /\ tg \in {TgNull} \cup TgObjects
    /\ sessionToken = null
    /\ localStorage = null
    /\ balanceEl = ""
    /\ refLinkEl = ""
    /\ packsEl = <<>>
    /\ supportLink = ""
    /\ errorHidden = TRUE
    /\ diagTg = ""
    /\ diagUser = ""
    /\ diagErr = ""
    /\ authPc = "init"
    /\ authReqs = 0
    /\ authData = [ok |-> FALSE, error |-> undefined, message |-> undefined]
    /\ attempts = <<>>
    /\ refreshes = {}
    /\ sentData = <<>>
    /\ closed = FALSE
    /\ balanceCalls = 0

----------------------------------------------------------------------------
(* auth() *)

\* tg?.initDataUnsafe?.user?.id || "-": the user is parsed from initData
UserId == IF tg.present /\ tg.initData # "" THEN "42" ELSE Dash

\* mutant: only the WebApp object is checked, not its initData
MissingContext_TgOnly == ~tg.present

\* !tg || !tg.initData
MissingContext == ~tg.present \/ ~Truthy(tg.initData)

\* auth() up to its first await: setDiag, the context check, ready/expand,
\* and the POST /api/auth
AuthStart ==
    /\ authPc = "init"
    /\ diagTg' = "tg available: " \o (IF tg.present THEN "yes" ELSE "no")
    /\ diagUser' = "user id: " \o UserId
    /\ IF MissingContext
          THEN /\ errorHidden' = FALSE
               /\ authPc' = "nocontext"
               /\ UNCHANGED <<diagErr, authReqs>>
          ELSE /\ \/ /\ tg.readyThrows
                     /\ \E e \in Errors :
                            diagErr' = setError("tg init failed: " \o ErrText(e))
                  \/ /\ ~tg.readyThrows
                     /\ UNCHANGED diagErr
               /\ authReqs' = authReqs + 1
               /\ authPc' = "fetch"
               /\ UNCHANGED errorHidden
    /\ UNCHANGED <<envVars, sessionToken, localStorage, uiVars, authData,
                   attempts, refreshes, sentData, closed, balanceCalls>>

\* mutant: a rejected auth fetch is retried once
AuthFetchReject_Retries ==
    /\ authPc = "fetch"
    /\ \E e \in Errors : diagErr' = setError("fetch auth failed: " \o ErrText(e))
    /\ IF authReqs < 2
          THEN authReqs' = authReqs + 1 /\ authPc' = "fetch"
                  /\ UNCHANGED errorHidden
          ELSE errorHidden' = FALSE /\ authPc' = "fetchfailed"
                  /\ UNCHANGED authReqs
    /\ UNCHANGED <<envVars, sessionToken, localStorage, uiVars, diagTg, diagUser,
                   authData, attempts, refreshes, sentData, closed, balanceCalls>>

\* await fetch(...) rejects
AuthFetchReject ==
    /\ authPc = "fetch"
    /\ \E e \in Errors : diagErr' = setError("fetch auth failed: " \o ErrText(e))
    /\ errorHidden' = FALSE
    /\ authPc' = "fetchfailed"
    /\ UNCHANGED <<envVars, sessionToken, localStorage, uiVars, diagTg, diagUser,
                   authReqs, authData, attempts, refreshes, sentData, closed, balanceCalls>>

\* await fetch(...) resolves with a response
AuthFetchResolve ==
    /\ authPc = "fetch"
    /\ authPc' = "text"
    /\ UNCHANGED <<envVars, sessionToken, localStorage, uiVars, errorHidden,
                   diagTg, diagUser, diagErr, authReqs, authData, attempts,
                   refreshes, sentData, closed, balanceCalls>>

\* resp?.status || "unknown"
StatusText(status) == IF status = 0 THEN "unknown" ELSE ToString(status)

\* the catch around resp.text() and JSON.parse
BadJson(status, msg, rawText) ==
    setError("bad json (status " \o StatusText(status) \o "): " \o msg
             \o "; preview: " \o (IF rawText # "" THEN Slice(rawText) ELSE "empty"))

\* mutant: the bad-json catch sets the text and forgets showError()
AuthBadBody_NoShowError ==
    /\ authPc = "text"
    /\ \E status \in HttpStatus :
          \/ \E e \in Errors : diagErr' = BadJson(status, ErrText(e), "")
          \/ \E raw \in NonJsonBodies :
                 diagErr' = BadJson(status, "Unexpected token", raw)
    /\ authPc' = "badjson"
    /\ UNCHANGED <<envVars, sessionToken, localStorage, uiVars, errorHidden,
                   diagTg, diagUser, authReqs, authData, attempts, refreshes,
                   sentData, closed, balanceCalls>>

\* await resp.text() rejects, or JSON.parse throws
AuthBadBody ==
    /\ authPc = "text"
    /\ \E status \in HttpStatus :
          \/ \E e \in Errors : diagErr' = BadJson(status, ErrText(e), "")
          \/ \E raw \in NonJsonBodies :
                 diagErr' = BadJson(status, "Unexpected token", raw)
    /\ errorHidden' = FALSE
    /\ authPc' = "badjson"
    /\ UNCHANGED <<envVars, sessionToken, localStorage, uiVars, diagTg, diagUser,
                   authReqs, authData, attempts, refreshes, sentData, closed, balanceCalls>>

\* the body is the JSON text null: data.ok throws outside every try
AuthNullBody ==
    /\ authPc = "text"
    /\ authPc' = "threw"
    /\ UNCHANGED <<envVars, sessionToken, localStorage, uiVars, errorHidden,
                   diagTg, diagUser, diagErr, authReqs, authData, attempts,
                   refreshes, sentData, closed, balanceCalls>>

\* mutant: the fallback code is lost when the server sends no error code
AuthFailText_NoFallback(data) ==
    Or(data.error, "")
        \o (IF Truthy(data.message) THEN " (" \o data.message \o ")" ELSE "")

\* the text of the error for an ok:false response
AuthFailText(data) ==
    Or(data.error, "auth_failed")
        \o (IF Truthy(data.message) THEN " (" \o data.message \o ")" ELSE "")

\* mutant: the packs are rendered before the ok check, from a default list
AuthFail_RendersPacks ==
    /\ authPc = "text"
    /\ \E data \in AuthFailData :
          /\ authData' = data
          /\ diagErr' = setError(AuthFailText(data))
    /\ packsEl' = renderPacks(<<P1>>)
    /\ errorHidden' = FALSE
    /\ authPc' = "rejected"
    /\ UNCHANGED <<envVars, sessionToken, localStorage, balanceEl, refLinkEl,
                   supportLink, diagTg, diagUser, authReqs, attempts, refreshes,
                   sentData, closed, balanceCalls>>

\* if (!data.ok) { ... return; }
AuthFail ==
    /\ authPc = "text"
    /\ \E data \in AuthFailData :
          /\ authData' = data
          /\ diagErr' = setError(AuthFailText(data))
    /\ errorHidden' = FALSE
    /\ authPc' = "rejected"
    /\ UNCHANGED <<envVars, sessionToken, localStorage, uiVars, diagTg, diagUser,
                   authReqs, attempts, refreshes, sentData, closed, balanceCalls>>

\* mutant: the session is stored as returned, without || null
SessionOf_Raw(data) == data.session

\* data.session || null
SessionOf(data) == Or(data.session, null)

\* data.ref_link || "-"
RefLinkOf(data) == Or(data.ref_link, Dash)

\* mutant: setItem is called outside if (sessionToken), so a missing
\* session is stored as the text "null"
AuthOk_StoresAlways ==
    /\ authPc = "text"
    /\ \E data \in AuthOkData :
          /\ authData' = data
          /\ sessionToken' = SessionOf(data)
          /\ \/ localStorage' = (IF Truthy(SessionOf(data))
                                    THEN SessionOf(data) ELSE "null")
             \/ UNCHANGED localStorage
          /\ balanceEl' = BalanceText(data.balance)
          /\ refLinkEl' = RefLinkOf(data)
          /\ packsEl' = renderPacks(PackagesOr(data))
          /\ supportLink' = Or(data.support_link, supportLink)
    /\ authPc' = "ok"
    /\ UNCHANGED <<envVars, errorHidden, diagTg, diagUser, diagErr, authReqs,
                   attempts, refreshes, sentData, closed, balanceCalls>>

\* the tail of auth() for an ok:true response
AuthOk ==
    /\ authPc = "text"
    /\ \E data \in AuthOkData :
          /\ authData' = data
          /\ sessionToken' = SessionOf(data)
          /\ IF Truthy(SessionOf(data))
                THEN \/ localStorage' = SessionOf(data)
                     \/ UNCHANGED localStorage     \* setItem throws: ignored
                ELSE UNCHANGED localStorage
          /\ balanceEl' = BalanceText(data.balance)
          /\ refLinkEl' = RefLinkOf(data)
          /\ packsEl' = renderPacks(PackagesOr(data))
          /\ supportLink' = Or(data.support_link, supportLink)
    /\ authPc' = "ok"
    /\ UNCHANGED <<envVars, errorHidden, diagTg, diagUser, diagErr, authReqs,
                   attempts, refreshes, sentData, closed, balanceCalls>>

----------------------------------------------------------------------------
(* refreshBalance() *)

\* mutant: the session check of refreshBalance is dropped
RefreshNoSession_Dropped == FALSE

\* if (!sessionToken) return;
RefreshNoSession == ~Truthy(sessionToken)

NoBalanceData == [ok |-> FALSE, balance |-> 0, message |-> undefined]

\* refreshBalance() up to its first await, called for attempt a:
\* the new value of refreshes
refreshBalance(a, via) ==
    IF RefreshNoSession
       THEN refreshes
       ELSE refreshes \cup {[attempt |-> a, via |-> via, pc |-> "fetch",
                              session |-> sessionToken, data |-> NoBalanceData]}

\* refreshBalance() called on its own, in whatever state the page is in
RefreshCalled ==
    /\ balanceCalls < MaxCalls
    /\ balanceCalls' = balanceCalls + 1
    /\ refreshes' = refreshBalance(0, "call" \o ToString(balanceCalls))
    /\ UNCHANGED <<envVars, sessionToken, localStorage, uiVars, errorHidden,
                   diagTg, diagUser, diagErr, authVars, attempts, sentData,
                   closed>>

\* the catch of refreshBalance
BalanceCatch(e) == setError("balance refresh failed: " \o ErrText(e))

\* r with its position and parsed data replaced
Settled(r, pc, data) == [r EXCEPT !.pc = pc, !.data = data]

\* await fetch(.../api/balance) rejects
BalanceFetchReject(r) ==
    /\ r.pc = "fetch"
    /\ diagErr' = BalanceCatch(FetchError)
    /\ refreshes' = (refreshes \ {r}) \cup {Settled(r, "error", r.data)}
    /\ UNCHANGED <<envVars, sessionToken, localStorage, uiVars, errorHidden,
                   diagTg, diagUser, authVars, attempts, sentData, closed, balanceCalls>>

\* fetch resolves and await resp.json() rejects
BalanceJsonReject(r) ==
    /\ r.pc = "fetch"
    /\ diagErr' = BalanceCatch(JsonError)
    /\ refreshes' = (refreshes \ {r}) \cup {Settled(r, "error", r.data)}
    /\ UNCHANGED <<envVars, sessionToken, localStorage, uiVars, errorHidden,
                   diagTg, diagUser, authVars, attempts, sentData, closed, balanceCalls>>

\* if (data.ok) balanceEl.textContent = ...
BalanceShown(data) == IF data.ok THEN BalanceText(data.balance) ELSE balanceEl

\* what refreshBalance writes to diagErr for a parsed response: nothing
BalanceDiag(data) == diagErr

\* mutant: a balance response with ok:false drops the session
BalanceJson_ClearsSession(r) ==
    /\ r.pc = "fetch"
    /\ \E data \in BalanceData :
          /\ balanceEl' = BalanceShown(data)
          /\ diagErr' = BalanceDiag(data)
          /\ sessionToken' = IF data.ok THEN sessionToken ELSE null
          /\ refreshes' = (refreshes \ {r}) \cup {Settled(r, "done", data)}
    /\ UNCHANGED <<envVars, localStorage, refLinkEl, packsEl,
                   supportLink, errorHidden, diagTg, diagUser, authVars, attempts,
                   sentData, closed, balanceCalls>>

\* fetch resolves and await resp.json() resolves with data
BalanceJson(r) ==
    /\ r.pc = "fetch"
    /\ \E data \in BalanceData :
          /\ balanceEl' = BalanceShown(data)
          /\ diagErr' = BalanceDiag(data)
          /\ refreshes' = (refreshes \ {r}) \cup {Settled(r, "done", data)}
    /\ UNCHANGED <<envVars, sessionToken, localStorage, refLinkEl, packsEl,
                   supportLink, errorHidden, diagTg, diagUser, authVars, attempts,
                   sentData, closed, balanceCalls>>

----------------------------------------------------------------------------
(* the buy button and createInvoice(packKey) *)

\* mutant: the session check of createInvoice is dropped
CreateInvoiceNoSession_Dropped == FALSE

\* if (!sessionToken) { ... return; }
CreateInvoiceNoSession == ~Truthy(sessionToken)

NoInvoiceData == [ok |-> FALSE, invoice_link |-> undefined, message |-> undefined]

NewAttempt(key, pc, session) ==
    [pack |-> key, pc |-> pc, session |-> session,
     reqs |-> IF pc = "fetch" THEN 1 ELSE 0, data |-> NoInvoiceData,
     opens |-> 0, invoiceArg |-> undefined,   \* calls of tg.openInvoice
     links |-> 0, linkArg |-> undefined,      \* calls of tg.openTelegramLink
     cb |-> "none", then |-> "none",
     status |-> undefined, handled |-> 0, refreshCalls |-> 0]

\* mutant: the no-session branch sets the text and forgets showError()
createInvoice_NoShowError(key) ==
    IF CreateInvoiceNoSession
       THEN /\ diagErr' = setError("no session")
            /\ UNCHANGED errorHidden
            /\ attempts' = Append(attempts, NewAttempt(key, "nosession", null))
       ELSE /\ attempts' = Append(attempts, NewAttempt(key, "fetch", sessionToken))
            /\ UNCHANGED <<diagErr, errorHidden>>

\* createInvoice(packKey) up to its first await
createInvoice(key) ==
    IF CreateInvoiceNoSession
       THEN /\ diagErr' = setError("no session")
            /\ errorHidden' = FALSE
            /\ attempts' = Append(attempts, NewAttempt(key, "nosession", null))
       ELSE /\ attempts' = Append(attempts, NewAttempt(key, "fetch", sessionToken))
            /\ UNCHANGED <<diagErr, errorHidden>>

\* click on the buy button of row i, part_000: if (tg) createInvoice(p.key)
BuyClick(i) ==
    /\ app = "invoice"
    /\ i \in DOMAIN packsEl
    /\ Len(attempts) < MaxClicks
    /\ tg.present
    /\ createInvoice(packsEl[i].key)
    /\ UNCHANGED <<envVars, sessionToken, localStorage, uiVars, diagTg, diagUser,
                   authVars, refreshes, sentData, closed, balanceCalls>>

\* JSON.stringify({ action: "buy_pack", pack: p.key })
BuyPayload(key) == "{\"action\":\"buy_pack\",\"pack\":\"" \o key \o "\"}"

\* click on the buy button of row i, miniapp/app.js: sendData and close
BuyClickSendData(i) ==
    /\ app = "sendData"
    /\ i \in DOMAIN packsEl
    /\ ~closed
    /\ tg.present
    /\ sentData' = Append(sentData, BuyPayload(packsEl[i].key))
    /\ closed' = TRUE
    /\ UNCHANGED <<envVars, sessionToken, localStorage, uiVars, errorHidden,
                   diagTg, diagUser, diagErr, authVars, attempts, refreshes,
                   balanceCalls>>

\* the outer catch of createInvoice
InvoiceCatch(e) == setError("invoice error: " \o ErrText(e))

\* The two awaits of createInvoice and of refreshBalance (fetch, then
\* resp.json()) are taken in one step: nothing is read or written between
\* them, so the outcomes are a rejected fetch, a rejected json(), or data.

\* await fetch(.../api/invoice) rejects
InvoiceFetchReject(a) ==
    /\ attempts[a].pc = "fetch"
    /\ diagErr' = InvoiceCatch(FetchError)
    /\ errorHidden' = FALSE
    /\ attempts' = [attempts EXCEPT ![a].pc = "error"]
    /\ UNCHANGED <<envVars, sessionToken, localStorage, uiVars, diagTg, diagUser,
                   authVars, refreshes, sentData, closed, balanceCalls>>

\* fetch resolves and await resp.json() rejects
InvoiceJsonReject(a) ==
    /\ attempts[a].pc = "fetch"
    /\ diagErr' = InvoiceCatch(JsonError)
    /\ errorHidden' = FALSE
    /\ attempts' = [attempts EXCEPT ![a].pc = "error"]
    /\ UNCHANGED <<envVars, sessionToken, localStorage, uiVars, diagTg, diagUser,
                   authVars, refreshes, sentData, closed, balanceCalls>>

\* mutant: only data.ok is checked, not the link
InvoiceRefusedBy_OkOnly(data) == ~data.ok

\* !data.ok || !data.invoice_link
InvoiceRefusedBy(data) == ~data.ok \/ ~Truthy(data.invoice_link)

\* mutant: a refused invoice also drops the session
InvoiceRefused_ClearsSession(a) ==
    /\ attempts[a].pc = "fetch"
    /\ \E data \in InvoiceData :
          /\ InvoiceRefusedBy(data)
          /\ diagErr' = setError(Or(data.message, "invoice failed"))
          /\ attempts' = [attempts EXCEPT ![a].pc = "failed", ![a].data = data]
    /\ errorHidden' = FALSE
    /\ sessionToken' = null
    /\ UNCHANGED <<envVars, localStorage, uiVars, diagTg, diagUser,
                   authVars, refreshes, sentData, closed, balanceCalls>>

\* the response is refused: setError(data.message || "invoice failed")
InvoiceRefused(a) ==
    /\ attempts[a].pc = "fetch"
    /\ \E data \in InvoiceData :
          /\ InvoiceRefusedBy(data)
          /\ diagErr' = setError(Or(data.message, "invoice failed"))
          /\ attempts' = [attempts EXCEPT ![a].pc = "failed", ![a].data = data]
    /\ errorHidden' = FALSE
    /\ UNCHANGED <<envVars, sessionToken, localStorage, uiVars, diagTg, diagUser,
                   authVars, refreshes, sentData, closed, balanceCalls>>

\* mutant: the fallback is treated as a failure and shows the error panel
InvoiceFallbackLink_ShowsError(a) ==
    /\ attempts[a].pc = "fetch"
    /\ ~tg.openInvoice
    /\ \E data \in InvoiceData :
          /\ ~InvoiceRefusedBy(data)
          /\ attempts' = [attempts EXCEPT ![a].pc = "link", ![a].data = data,
                                          ![a].links = @ + 1,
                                          ![a].linkArg = data.invoice_link]
    /\ diagErr' = setError("openInvoice unavailable")
    /\ errorHidden' = FALSE
    /\ UNCHANGED <<envVars, sessionToken, localStorage, uiVars, diagTg, diagUser,
                   authVars, refreshes, sentData, closed, balanceCalls>>

\* if (!tg.openInvoice) { tg.openTelegramLink(data.invoice_link); return; }
InvoiceFallbackLink(a) ==
    /\ attempts[a].pc = "fetch"
    /\ ~tg.openInvoice
    /\ \E data \in InvoiceData :
          /\ ~InvoiceRefusedBy(data)
          /\ attempts' = [attempts EXCEPT ![a].pc = "link", ![a].data = data,
                                          ![a].links = @ + 1,
                                          ![a].linkArg = data.invoice_link]
    /\ UNCHANGED <<envVars, sessionToken, localStorage, uiVars, errorHidden,
                   diagTg, diagUser, diagErr, authVars, refreshes, sentData,
                   closed, balanceCalls>>

\* mutant: the inner catch shows the error and does not open the link
InvoiceOpenThrows_NoFallback(a) ==
    /\ attempts[a].pc = "fetch"
    /\ tg.openInvoice
    /\ \E data \in InvoiceData :
          /\ ~InvoiceRefusedBy(data)
          /\ attempts' = [attempts EXCEPT ![a].pc = "threw", ![a].data = data,
                                          ![a].opens = @ + 1,
                                          ![a].invoiceArg = data.invoice_link]
    /\ diagErr' = setError("openInvoice failed: " \o ErrText(OpenError))
    /\ errorHidden' = FALSE
    /\ UNCHANGED <<envVars, sessionToken, localStorage, uiVars, diagTg, diagUser,
                   authVars, refreshes, sentData, closed, balanceCalls>>

\* tg.openInvoice(...) throws: the inner catch. The host throws before it
\* keeps the callback, and .then is never reached, so no handler is left.
InvoiceOpenThrows(a) ==
    /\ attempts[a].pc = "fetch"
    /\ tg.openInvoice
    /\ \E data \in InvoiceData :
          /\ ~InvoiceRefusedBy(data)
          /\ attempts' = [attempts EXCEPT ![a].pc = "threw", ![a].data = data,
                                          ![a].opens = @ + 1,
                                          ![a].invoiceArg = data.invoice_link,
                                          ![a].links = @ + 1,
                                          ![a].linkArg = data.invoice_link]
    /\ diagErr' = setError("openInvoice failed: " \o ErrText(OpenError))
    /\ errorHidden' = FALSE
    /\ UNCHANGED <<envVars, sessionToken, localStorage, uiVars, diagTg, diagUser,
                   authVars, refreshes, sentData, closed, balanceCalls>>

\* tg.openInvoice(link, callback) returns: the host keeps the callback
\* (usesCb) and/or returns a thenable, on which .then registers a handler
InvoiceOpened(a) ==
    /\ attempts[a].pc = "fetch"
    /\ tg.openInvoice
    /\ \E data \in InvoiceData, usesCb \in BOOLEAN, thenable \in BOOLEAN :
          /\ ~InvoiceRefusedBy(data)
          /\ attempts' = [attempts EXCEPT
                 ![a].pc = "opened", ![a].data = data, ![a].opens = @ + 1,
                 ![a].invoiceArg = data.invoice_link,
                 ![a].cb = IF usesCb THEN "pending" ELSE "none",
                 ![a].then = IF thenable THEN "pending" ELSE "none"]
    /\ UNCHANGED <<envVars, sessionToken, localStorage, uiVars, errorHidden,
                   diagTg, diagUser, diagErr, authVars, refreshes, sentData,
                   closed, balanceCalls>>

\* mutant: every status other than "cancelled" counts as a payment
StatusKind_FailedRefreshes(st) ==
    IF st = "cancelled" THEN "error"
    ELSE IF st = "pending" THEN "ignore"
    ELSE "refresh"

\* what a status handler does with status st: both handlers share this body
StatusKind(st) ==
    IF st = "paid" THEN "refresh"
    ELSE IF st = "cancelled" \/ st = "failed" THEN "error"
    ELSE "ignore"

\* mutant: a payment hides the error panel and resets the error text
OnStatus_PaidHidesError(a, st, via) ==
    /\ CASE StatusKind(st) = "refresh" ->
              /\ refreshes' = refreshBalance(a, via)
              /\ attempts' = [attempts EXCEPT
                     ![a].status = st, ![a].handled = @ + 1,
                     ![a].refreshCalls = @ + 1, ![a][via] = "done"]
              /\ balanceCalls' = balanceCalls + 1
              /\ diagErr' = setError("")
              /\ errorHidden' = TRUE
         [] StatusKind(st) = "error" ->
              /\ diagErr' = setError("invoice " \o st)
              /\ errorHidden' = FALSE
              /\ attempts' = [attempts EXCEPT
                     ![a].status = st, ![a].handled = @ + 1, ![a][via] = "done"]
              /\ UNCHANGED <<refreshes, balanceCalls>>
         [] OTHER ->
              /\ attempts' = [attempts EXCEPT
                     ![a].status = st, ![a].handled = @ + 1, ![a][via] = "done"]
              /\ UNCHANGED <<refreshes, diagErr, errorHidden, balanceCalls>>
    /\ UNCHANGED <<envVars, sessionToken, localStorage, uiVars, diagTg, diagUser,
                   authVars, sentData, closed>>

\* the body of (status) => { ... }, run for attempt a through channel via
OnStatus(a, st, via) ==
    /\ CASE StatusKind(st) = "refresh" ->
              /\ refreshes' = refreshBalance(a, via)
              /\ attempts' = [attempts EXCEPT
                     ![a].status = st, ![a].handled = @ + 1,
                     ![a].refreshCalls = @ + 1, ![a][via] = "done"]
              /\ balanceCalls' = balanceCalls + 1
              /\ UNCHANGED <<diagErr, errorHidden>>
         [] StatusKind(st) = "error" ->
              /\ diagErr' = setError("invoice " \o st)
              /\ errorHidden' = FALSE
              /\ attempts' = [attempts EXCEPT
                     ![a].status = st, ![a].handled = @ + 1, ![a][via] = "done"]
              /\ UNCHANGED <<refreshes, balanceCalls>>
         [] OTHER ->
              /\ attempts' = [attempts EXCEPT
                     ![a].status = st, ![a].handled = @ + 1, ![a][via] = "done"]
              /\ UNCHANGED <<refreshes, diagErr, errorHidden, balanceCalls>>
    /\ UNCHANGED <<envVars, sessionToken, localStorage, uiVars, diagTg, diagUser,
                   authVars, sentData, closed>>

\* the status the host reports for attempt a: one status per invoice
ReportedStatus(a) ==
    IF attempts[a].status = undefined THEN Statuses ELSE {attempts[a].status}

\* the host calls the callback passed to openInvoice
StatusCallback(a) ==
    /\ attempts[a].pc = "opened"
    /\ attempts[a].cb = "pending"
    /\ \E st \in ReportedStatus(a) : OnStatus(a, st, "cb")

\* the thenable returned by openInvoice resolves
ThenResolved(a) ==
    /\ attempts[a].pc = "opened"
    /\ attempts[a].then = "pending"
    /\ \E st \in ReportedStatus(a) : OnStatus(a, st, "then")

----------------------------------------------------------------------------
Next ==
    \/ AuthStart
    \/ AuthFetchReject
    \/ AuthFetchResolve
    \/ AuthBadBody
    \/ AuthNullBody
    \/ AuthFail
    \/ AuthOk
    \/ \E i \in 1..2 : BuyClick(i)
    \/ \E i \in 1..2 : BuyClickSendData(i)
    \/ \E a \in DOMAIN attempts : InvoiceFetchReject(a)
    \/ \E a \in DOMAIN attempts : InvoiceJsonReject(a)
    \/ \E a \in DOMAIN attempts : InvoiceRefused(a)
    \/ \E a \in DOMAIN attempts : InvoiceFallbackLink(a)
    \/ \E a \in DOMAIN attempts : InvoiceOpenThrows(a)
    \/ \E a \in DOMAIN attempts : InvoiceOpened(a)
    \/ \E a \in DOMAIN attempts : StatusCallback(a)
    \/ \E a \in DOMAIN attempts : ThenResolved(a)
    \/ \E r \in refreshes : BalanceFetchReject(r)
    \/ \E r \in refreshes : BalanceJsonReject(r)
    \/ \E r \in refreshes : BalanceJson(r)

Spec == Init /\ [][Next]_vars

\* auth() at startup, and refreshBalance() called on its own before, during
\* and after it: the function with and without a session
NextRefresh ==
    \/ AuthStart
    \/ AuthFetchReject
    \/ AuthFetchResolve
    \/ AuthBadBody
    \/ AuthNullBody
    \/ AuthFail
    \/ AuthOk
    \/ RefreshCalled
    \/ \E r \in refreshes : BalanceFetchReject(r)
    \/ \E r \in refreshes : BalanceJsonReject(r)
    \/ \E r \in refreshes : BalanceJson(r)

SpecRefresh == Init /\ [][NextRefresh]_vars

----------------------------------------------------------------------------
(* Properties *)

Attempts == DOMAIN attempts

\* s starts with prefix
StartsWith(s, prefix) ==
    Len(s) >= Len(prefix) /\ SubSeq(s, 1, Len(prefix)) = prefix

\* sub occurs in s
Contains(s, sub) ==
    \E i \in 1..(Len(s) - Len(sub) + 1) : SubSeq(s, i, i + Len(sub) - 1) = sub

\* number of POST /api/invoice requests issued so far
InvoiceReqs(att) == Cardinality({a \in DOMAIN att : att[a].reqs > 0})

\* C1: a request to /api/balance or /api/invoice is issued only while
\* sessionToken is non-empty: every request carries a non-empty session, a
\* step that issues one starts with a non-empty sessionToken, and an attempt
\* stopped for a missing session never issues a request later.
C1_RequestsNeedSession ==
    /\ [](/\ \A a \in Attempts :
                /\ attempts[a].reqs > 0 => Truthy(attempts[a].session)
                /\ attempts[a].pc = "nosession" => attempts[a].reqs = 0
          /\ \A r \in refreshes : Truthy(r.session))
    /\ [][/\ (InvoiceReqs(attempts') > InvoiceReqs(attempts)
                 \/ refreshes' \ refreshes # {}) => Truthy(sessionToken)
          /\ \A a \in Attempts :
                attempts[a].pc = "nosession" => attempts'[a] = attempts[a]]_vars

\* C1 witness: two clicks met a missing session, neither issued a request
C1_Witness ==
    /\ Len(attempts) >= 2
    /\ attempts[1].pc = "nosession" /\ attempts[2].pc = "nosession"
    /\ InvoiceReqs(attempts) = 0

\* C2: once status paid was received for an attempt, refreshBalance was
\* called exactly once for that attempt, whichever channel reported it.
C2_PaidRefreshesOnce ==
    \A a \in Attempts :
        attempts[a].status = "paid" => attempts[a].refreshCalls = 1

\* a status handler of attempt a runs in this step
Handles(a) == attempts'[a].handled > attempts[a].handled

\* C3: a handler that receives cancelled or failed shows the error panel
\* with the text "invoice <status>" and issues no balance request; an attempt
\* that ended cancelled or failed never called refreshBalance.
C3_CancelledFailedShowError ==
    /\ [][\A a \in Attempts :
             (Handles(a) /\ attempts'[a].status \in {"cancelled", "failed"}) =>
                 /\ errorHidden' = FALSE
                 /\ diagErr' = "error: invoice " \o attempts'[a].status
                 /\ refreshes' = refreshes
                 /\ attempts'[a].refreshCalls = attempts[a].refreshCalls]_vars
    /\ [](\A a \in Attempts :
             attempts[a].status \in {"cancelled", "failed"} =>
                 /\ attempts[a].refreshCalls = 0
                 /\ \A r \in refreshes : r.attempt # a)

\* C3 witness: an attempt whose handlers received failed through both channels
C3_Witness ==
    \E a \in Attempts :
        /\ attempts[a].status = "failed"
        /\ attempts[a].handled = 2
        /\ ~errorHidden

\* C4: createInvoice called with no session shows the error panel with the
\* text "no session", issues no request and opens neither the invoice nor a
\* link, then and ever after.
C4_NoSessionFailsFast ==
    /\ [][(Len(attempts') > Len(attempts) /\ ~Truthy(sessionToken)) =>
             /\ errorHidden' = FALSE
             /\ diagErr' = "error: no session"
             /\ InvoiceReqs(attempts') = InvoiceReqs(attempts)
             /\ refreshes' = refreshes
             /\ authReqs' = authReqs]_vars
    /\ [](~Truthy(sessionToken) =>
             \A a \in Attempts :
                 /\ attempts[a].reqs = 0
                 /\ attempts[a].opens = 0
                 /\ attempts[a].links = 0)

\* C4 witness: a click without a session ended with the fixed message
C4_Witness ==
    /\ Len(attempts) = 1
    /\ attempts[1].pc = "nosession"
    /\ diagErr = "error: no session"
    /\ ~errorHidden

\* C5: after an ok:false auth response the error panel shows the server's
\* error code, or auth_failed when there is none, followed by the message in
\* parentheses when there is one; no session is set, nothing is stored, and
\* balance, referral link and pack list are as before.
C5_AuthRejectedHalts ==
    authPc = "rejected" =>
        /\ ~errorHidden
        /\ diagErr = "error: "
              \o (IF authData.error = undefined
                     THEN "auth_failed" ELSE authData.error)
              \o (IF authData.message = undefined
                     THEN "" ELSE " (" \o authData.message \o ")")
        /\ sessionToken = null
        /\ localStorage = null
        /\ balanceEl = "" /\ refLinkEl = "" /\ packsEl = <<>>
        /\ attempts = <<>> /\ refreshes = {}

\* C5 witness: an ok:false response without a code and with a message
C5_Witness ==
    /\ authPc = "rejected"
    /\ authData.error = undefined
    /\ authData.message = "hash mismatch"

\* C6: with no WebApp object or an empty initData, auth returns through its
\* first return with the error panel shown, no request issued and no session.
C6_MissingContextShowsError ==
    ((~tg.present \/ tg.initData = "") /\ authPc # "init") =>
        /\ authPc = "nocontext"
        /\ ~errorHidden
        /\ authReqs = 0
        /\ sessionToken = null
        /\ attempts = <<>> /\ refreshes = {}

\* C6 witness: the WebApp object exists and its initData is empty
C6_Witness == tg.present /\ tg.initData = "" /\ authPc = "nocontext"

\* C7: after a rejected auth fetch or an unparsable body, the error panel is
\* shown with a diagnostic text, exactly one auth request was issued, no
\* session is set and no packs are rendered.
C7_AuthTransportFailureHalts ==
    authPc \in {"fetchfailed", "badjson"} =>
        /\ ~errorHidden
        /\ IF authPc = "fetchfailed"
              THEN StartsWith(diagErr, "error: fetch auth failed: ")
              ELSE StartsWith(diagErr, "error: bad json (status ")
        /\ authReqs = 1
        /\ sessionToken = null
        /\ packsEl = <<>>
        /\ attempts = <<>> /\ refreshes = {}

\* C7 witness: a body longer than the preview was cut to the preview length
C7_Witness ==
    /\ authPc = "badjson"
    /\ Contains(diagErr, "; preview: <html>")
    /\ Len(diagErr) < Len(LongBody)

\* the auth response is processed as ok:true in this step
AuthSucceeds == authPc = "text" /\ authPc' = "ok"

\* the pack list shows one row per returned package, in order
RowsMatch(rows, packs) ==
    /\ Len(rows) = Len(packs)
    /\ \A i \in DOMAIN packs :
          /\ rows[i].key = packs[i].key
          /\ Contains(rows[i].html, ToString(packs[i].spreads) \o Spreads)
          /\ Contains(rows[i].html, ToString(packs[i].stars) \o " *")

\* C8 as stated: after an ok:true response the balance text is
\* "<balance> raskladov", the referral field is the returned ref_link or the
\* dash when it is absent, the session token is the returned session, and the
\* pack list has one row per returned package.
C8_AsStated ==
    [][AuthSucceeds =>
          /\ balanceEl' = ToString(authData'.balance) \o Spreads
          /\ refLinkEl' = (IF authData'.ref_link = undefined
                              THEN Dash ELSE authData'.ref_link)
          /\ sessionToken' = (IF authData'.session = undefined
                                 THEN null ELSE authData'.session)
          /\ RowsMatch(packsEl', PackagesOr(authData'))]_vars

\* C8 amended: as C8, with the dash shown also for an empty ref_link and the
\* session token null also for an empty session.
C8_AuthSuccessDisplays ==
    [][AuthSucceeds =>
          /\ balanceEl' = ToString(authData'.balance) \o Spreads
          /\ refLinkEl' = (IF authData'.ref_link \in {undefined, ""}
                              THEN Dash ELSE authData'.ref_link)
          /\ sessionToken' = (IF authData'.session \in {undefined, ""}
                                 THEN null ELSE authData'.session)
          /\ RowsMatch(packsEl', PackagesOr(authData'))]_vars

\* C8 witness: an ok:true response with two packages and an empty ref_link
C8_Witness ==
    /\ authPc = "ok"
    /\ Len(packsEl) = 2
    /\ authData.ref_link = ""
    /\ refLinkEl = Dash
    /\ balanceEl = "0 raskladov"

\* the steps createInvoice and the host may take for one attempt
AttemptSteps ==
    { <<"fetch", "error">>, <<"fetch", "failed">>, <<"fetch", "link">>,
      <<"fetch", "threw">>, <<"fetch", "opened">> }

\* C9: an attempt issues at most one invoice request, and none after its
\* click; the invoice is opened only after a response with ok:true and a link;
\* a status is handled only after openInvoice returned; the attempt's position
\* moves only forward, and a received status never changes.
C9_AttemptStateMachine ==
    /\ [](\A a \in Attempts :
             /\ attempts[a].reqs <= 1
             /\ attempts[a].opens <= 1
             /\ attempts[a].opens = 1 =>
                   /\ attempts[a].reqs = 1
                   /\ attempts[a].data.ok
                   /\ attempts[a].data.invoice_link = InvoiceLink
                   /\ attempts[a].pc \in {"opened", "threw"}
             /\ attempts[a].handled > 0 =>
                   /\ attempts[a].pc = "opened"
                   /\ attempts[a].status \in Statuses
             /\ attempts[a].pc \in {"failed", "error", "nosession"} =>
                   attempts[a].opens = 0 /\ attempts[a].links = 0)
    /\ [][\A a \in Attempts :
             /\ attempts'[a].reqs = attempts[a].reqs
             /\ \/ attempts'[a].pc = attempts[a].pc
                \/ <<attempts[a].pc, attempts'[a].pc>> \in AttemptSteps
             /\ attempts[a].status # undefined =>
                   attempts'[a].status = attempts[a].status
             /\ attempts[a].pc \in {"failed", "error", "nosession", "link", "threw"}
                   => attempts'[a] = attempts[a]]_vars

\* C9 witness: one attempt was cancelled and a second click was refused
C9_Witness ==
    /\ Len(attempts) = 2
    /\ attempts[1].pc = "opened" /\ attempts[1].status = "cancelled"
    /\ attempts[2].pc = "failed"

\* C10: a response with ok:false and a message, from auth, balance or
\* invoice, leaves the error text containing that message.
C10_OkFalseSurfaced ==
    [][/\ (authPc = "text" /\ authPc' = "rejected"
              /\ authData'.message # undefined) =>
             Contains(diagErr', authData'.message)
       /\ \A a \in Attempts :
             (attempts[a].pc = "fetch" /\ attempts'[a].pc = "failed"
                 /\ ~attempts'[a].data.ok
                 /\ attempts'[a].data.message # undefined) =>
             Contains(diagErr', attempts'[a].data.message)
       /\ \A r \in refreshes' \ refreshes :
             (r.pc = "done" /\ ~r.data.ok /\ r.data.message # undefined) =>
             Contains(diagErr', r.data.message)]_vars

\* the invoice response of attempt a was accepted (ok:true with a link)
Accepted(a) == attempts[a].pc \in {"link", "threw", "opened"}

\* C11: after an accepted invoice response the link is passed to
\* tg.openInvoice when the host has it; when it has not, the link is passed
\* once to tg.openTelegramLink, openInvoice is not called, and the step
\* leaves the error panel and the error text as they were.
C11_LinkHandedToHost ==
    /\ [](\A a \in Attempts :
             Accepted(a) =>
                IF tg.openInvoice
                   THEN /\ attempts[a].opens = 1
                        /\ attempts[a].invoiceArg = attempts[a].data.invoice_link
                        /\ attempts[a].invoiceArg = InvoiceLink
                   ELSE /\ attempts[a].opens = 0
                        /\ attempts[a].links = 1
                        /\ attempts[a].linkArg = attempts[a].data.invoice_link
                        /\ attempts[a].linkArg = InvoiceLink
                        /\ attempts[a].pc = "link")
    /\ [][\A a \in Attempts :
             (attempts[a].pc = "fetch" /\ attempts'[a].pc = "link") =>
                 /\ errorHidden' = errorHidden
                 /\ diagErr' = diagErr]_vars

\* C11 witness: the fallback opened the link and the error panel is hidden
C11_Witness ==
    /\ ~tg.openInvoice
    /\ errorHidden
    /\ \E a \in Attempts :
          /\ attempts[a].pc = "link"
          /\ attempts[a].links = 1
          /\ attempts[a].linkArg = InvoiceLink

\* C12: at most one POST /api/auth is ever issued, and it is issued by the
\* call of auth() at startup: no later step (a click, an error, a payment
\* status, a response) issues another one.
C12_SingleAuthRequest ==
    /\ [](authReqs <= 1)
    /\ [][authReqs' # authReqs =>
             /\ authPc = "init"
             /\ authReqs = 0
             /\ attempts = <<>>
             /\ refreshes = {}]_vars

\* C12 witness: one auth request, then a paid purchase and a failed one
C12_Witness ==
    /\ authReqs = 1
    /\ \E a \in Attempts : attempts[a].status = "paid"
    /\ \E a \in Attempts : attempts[a].pc = "error"

\* createInvoice failed for attempt a after its request was sent
FailedAttempt(att, a) ==
    \/ att[a].pc \in {"error", "failed", "threw"}
    \/ att[a].pc = "opened" /\ att[a].status \in {"cancelled", "failed"}

\* a refreshBalance call failed
FailedRefresh(r) == r.pc = "error" \/ (r.pc = "done" /\ ~r.data.ok)

\* an attempt or a refresh fails in this step
FailureStep ==
    \/ \E a \in Attempts : ~FailedAttempt(attempts, a) /\ FailedAttempt(attempts', a)
    \/ \E r \in refreshes' \ refreshes : FailedRefresh(r)

\* C13: a step in which createInvoice or refreshBalance fails leaves the
\* session token and the pack list unchanged; after a failure the buy button
\* can still be clicked, and the click issues a new /api/invoice request that
\* carries the same session as the failed attempt.
C13_ErrorsAreLocal ==
    /\ [][FailureStep => sessionToken' = sessionToken /\ packsEl' = packsEl]_vars
    /\ [](\A a \in Attempts :
             (FailedAttempt(attempts, a) /\ Len(attempts) < MaxClicks) =>
                 ENABLED (\E i \in 1..2 : BuyClick(i)))
    /\ [][(Len(attempts') > Len(attempts)
              /\ \E a \in Attempts : FailedAttempt(attempts, a)) =>
             LET new == attempts'[Len(attempts')]
             IN  /\ new.pc = "fetch"
                 /\ new.reqs = 1
                 /\ new.session = sessionToken
                 /\ \A a \in Attempts :
                       FailedAttempt(attempts, a) =>
                           new.session = attempts[a].session]_vars

\* C13 witness: the first attempt failed and the second click has its
\* request in flight with the same session
C13_Witness ==
    /\ Len(attempts) = 2
    /\ FailedAttempt(attempts, 1)
    /\ attempts[2].pc = "fetch"
    /\ attempts[2].session = attempts[1].session
    /\ attempts[2].session = "s1"

\* refreshBalance() is called in this step
RefreshCallStep == balanceCalls' = balanceCalls + 1

\* the response of a balance request is processed in this step
RefreshSettles(r) == r \in refreshes' \ refreshes /\ r.pc # "fetch"

\* C14: refreshBalance called without a session issues no request and
\* changes no text and no panel; called with a session it issues one request
\* with that session; a refresh that fails changes nothing but the error
\* text, which then names the balance refresh; no refresh shows the error
\* panel; and the balance text changes only for a response with ok:true.
C14_RefreshIsNonFatal ==
    /\ [][RefreshCallStep =>
             /\ <<diagErr, errorHidden, balanceEl>>' = <<diagErr, errorHidden, balanceEl>>
             /\ IF Truthy(sessionToken)
                   THEN \E r \in refreshes' :
                           /\ refreshes' \ refreshes = {r}
                           /\ r.pc = "fetch" /\ r.session = sessionToken
                   ELSE refreshes' = refreshes]_vars
    /\ [][\A r \in refreshes' :
             RefreshSettles(r) =>
                /\ errorHidden' = errorHidden
                /\ <<sessionToken, localStorage, refLinkEl, packsEl, attempts>>'
                      = <<sessionToken, localStorage, refLinkEl, packsEl, attempts>>
                /\ IF r.pc = "done" /\ r.data.ok
                      THEN /\ balanceEl' = ToString(r.data.balance) \o Spreads
                           /\ diagErr' = diagErr
                      ELSE /\ balanceEl' = balanceEl
                           /\ \/ diagErr' = diagErr
                              \/ /\ r.pc = "error"
                                 /\ StartsWith(diagErr',
                                        "error: balance refresh failed: ")]_vars
    /\ [](\A r \in refreshes : Truthy(r.session))

\* C14 witness: of two calls one found no session and left no trace, the
\* other one failed and the error panel is still hidden
C14_Witness ==
    /\ balanceCalls = 2
    /\ Cardinality(refreshes) = 1
    /\ \E r \in refreshes : r.pc = "error" /\ r.session = "s1"
    /\ errorHidden
    /\ StartsWith(diagErr, "error: balance refresh failed: ")

\* C15: sessionToken is null until an ok:true auth response is processed,
\* changes only in that step, and once non-empty never changes again:
\* refreshBalance, createInvoice and the status handlers leave it alone.
C15_SessionSetOnlyByAuth ==
    /\ [](authPc # "ok" => sessionToken = null)
    /\ [][sessionToken' # sessionToken => (authPc = "text" /\ authPc' = "ok")]_vars
    /\ [][Truthy(sessionToken) => sessionToken' = sessionToken]_vars

\* C15 witness: the session outlived a refused balance refresh and a
\* cancelled purchase
C15_Witness ==
    /\ sessionToken = "s1"
    /\ \E r \in refreshes : r.pc = "done" /\ ~r.data.ok
    /\ \E a \in Attempts : attempts[a].status = "cancelled"

\* the session an ok:true response leaves in memory
SessionKept(data) == IF data.session \in {undefined, ""} THEN null ELSE data.session

\* C16: the value under astra_session changes only when an ok:true auth
\* response with a non-empty session is processed, and then it is the
\* in-memory session token; when the write fails the stored value stays as it
\* was and auth still sets the token and displays balance, referral link and
\* packs.
C16_StorageIsBestEffort ==
    /\ [][AuthSucceeds =>
             /\ sessionToken' = SessionKept(authData')
             /\ balanceEl' = ToString(authData'.balance) \o Spreads
             /\ refLinkEl' # ""
             /\ RowsMatch(packsEl', PackagesOr(authData'))
             /\ localStorage' \in {localStorage, sessionToken'}]_vars
    /\ [][localStorage' # localStorage =>
             /\ AuthSucceeds
             /\ Truthy(localStorage')
             /\ localStorage' = sessionToken']_vars
    /\ [](localStorage # null => localStorage = sessionToken)
    /\ [](authData.ok => authPc = "ok" /\ sessionToken = SessionKept(authData))

\* C16 witness: the write failed, the session is in memory and the page is
\* filled in
C16_Witness ==
    /\ authPc = "ok"
    /\ sessionToken = "s1"
    /\ localStorage = null
    /\ Len(packsEl) = 1
    /\ balanceEl = "5 raskladov"
    /\ refLinkEl = RefLink

\* C17: buy buttons exist, and createInvoice is called, only after an
\* ok:true auth response was processed: never while auth is in flight and
\* never after auth failed; and createInvoice meets a missing session only
\* when that ok:true response carried no session.
C17_InvoiceOnlyAfterAuth ==
    /\ [](packsEl # <<>> => authPc = "ok")
    /\ [](attempts # <<>> => authPc = "ok" /\ authData.ok)
    /\ [][Len(attempts') > Len(attempts) => authPc = "ok"]_vars
    /\ [](\A a \in Attempts :
             attempts[a].pc = "nosession" =>
                 authData.ok /\ authData.session \in {undefined, ""})
    /\ [](\A a \in Attempts :
             attempts[a].reqs > 0 => authData.session = attempts[a].session)

\* C17 witness: auth answered ok:true without a session and a click ended
\* with a missing session
C17_Witness ==
    /\ authPc = "ok"
    /\ authData.session = undefined
    /\ \E a \in Attempts : attempts[a].pc = "nosession"

\* an operation succeeds in this step: an invoice is opened, a payment is
\* reported, or a balance response with ok:true is processed
SuccessStep ==
    \/ \E a \in Attempts :
          \/ attempts[a].pc = "fetch" /\ attempts'[a].pc \in {"opened", "link"}
          \/ Handles(a) /\ attempts'[a].status = "paid"
    \/ \E r \in refreshes' \ refreshes : r.pc = "done" /\ r.data.ok

\* C18: once the error panel is shown no step hides it; no step empties the
\* error text (a step leaves it or writes another error); and a step in
\* which an operation succeeds changes neither.
C18_ErrorPanelMonotonic ==
    /\ [][~errorHidden => ~errorHidden']_vars
    /\ [][\/ diagErr' = diagErr
          \/ /\ StartsWith(diagErr', "error: ")
             /\ Len(diagErr') > Len("error: ")
             /\ diagErr' # "error: " \o Dash]_vars
    /\ [][SuccessStep =>
             diagErr' = diagErr /\ errorHidden' = errorHidden]_vars

\* C18 witness: one purchase was cancelled, the other paid and its balance
\* refreshed, and the panel still shows the cancellation
C18_Witness ==
    /\ Len(attempts) = 2
    /\ attempts[1].status = "cancelled"
    /\ attempts[2].status = "paid"
    /\ \E r \in refreshes : r.attempt = 2 /\ r.pc = "done" /\ r.data.ok
    /\ ~errorHidden
    /\ diagErr = "error: invoice cancelled"
    /\ balanceEl = "7 raskladov"

\* C19: when tg.openInvoice throws, the step shows the error panel with a
\* text starting "openInvoice failed" and passes the same link once to
\* tg.openTelegramLink; an attempt that ended this way, or through the
\* fallback for a host without openInvoice, has no status handler, handles no
\* status and never calls refreshBalance.
C19_OpenInvoiceThrowsFallsBack ==
    /\ [][\A a \in Attempts :
             (attempts[a].pc = "fetch" /\ attempts'[a].pc = "threw") =>
                 /\ tg.openInvoice
                 /\ errorHidden' = FALSE
                 /\ StartsWith(diagErr', "error: openInvoice failed: ")
                 /\ attempts'[a].opens = 1
                 /\ attempts'[a].links = 1
                 /\ attempts'[a].linkArg = attempts'[a].invoiceArg
                 /\ attempts'[a].linkArg = attempts'[a].data.invoice_link
                 /\ attempts'[a].linkArg = InvoiceLink]_vars
    /\ [](\A a \in Attempts :
             attempts[a].pc \in {"threw", "link"} =>
                 /\ attempts[a].links = 1
                 /\ attempts[a].cb = "none" /\ attempts[a].then = "none"
                 /\ attempts[a].handled = 0
                 /\ attempts[a].status = undefined
                 /\ attempts[a].refreshCalls = 0
                 /\ \A r \in refreshes : r.attempt # a)

\* C19 witness: openInvoice threw for one attempt while another attempt was
\* paid and refreshed the balance
C19_Witness ==
    /\ \E a \in Attempts :
          /\ attempts[a].pc = "threw"
          /\ attempts[a].links = 1
          /\ attempts[a].linkArg = InvoiceLink
    /\ \E r \in refreshes : attempts[r.attempt].status = "paid"
    /\ ~errorHidden

====
